---- MODULE Spec2Model ----
(***************************************************************************)
(* NeuroSpace on-chain program (src/program/src/lib.rs): one prompt        *)
(* account whose data holds a Borsh-encoded PromptAccount, and the two     *)
(* instructions SubmitPrompt / SubmitResponse that read and write it.      *)
(*                                                                         *)
(* The account data is a fixed-length byte sequence.  Serialisation goes   *)
(* through `&mut &mut [u8]` (std::io::Write for a mutable slice): every    *)
(* field is written with write_all, which copies as many bytes as still    *)
(* fit and only then reports WriteZero.  Deserialisation goes through      *)
(* BorshDeserialize::try_from_slice, which rejects input that is not       *)
(* consumed completely.                                                    *)
(***************************************************************************)
EXTENDS Integers, Sequences, FiniteSets, TLC

VARIABLES
    data,        \* prompt_account.data: the slot's bytes (length = capacity)
    prev,        \* the slot's bytes before the last call
    last,        \* the last call: its inputs and what it returned
    nSubmitOk,   \* number of SubmitPrompt calls that returned Ok(())
    nRespondOk   \* number of SubmitResponse calls that returned Ok(())

vars == <<data, prev, last, nSubmitOk, nRespondOk>>

----------------------------------------------------------------------------
(* Bounds of the model *)

MaxCap == 12
MaxTextLen == 2
MaxOk == 2

(* The bytes a String of the model is made of: U+0001, one byte in UTF-8,  *)
(* which is also the byte of a present Option, of `true` and of length 1.  *)
Chars == {1}

Texts == UNION {[1..n -> Chars] : n \in 0..MaxTextLen}

Caps == 0..MaxCap

program_id == "program_id"
other_id == "other_program"

Min(a, b) == IF a < b THEN a ELSE b

Fill(n, b) == [i \in 1..n |-> b]

Zeroed(n) == Fill(n, 0)

----------------------------------------------------------------------------
(* Option<String> *)

None == <<>>
Some(t) == <<t>>

(* struct PromptAccount { prompt, response, is_processed } *)
PromptAccount(p, r, f) == [prompt |-> p, response |-> r, is_processed |-> f]

----------------------------------------------------------------------------
(* Writing: std::io::Write for &mut [u8], as BorshSerialize uses it *)

(* u32::to_le_bytes *)
U32LE(n) ==
    <<n % 256, (n \div 256) % 256, (n \div 65536) % 256, (n \div 16777216) % 256>>

Writer(buf) == [buf |-> buf, pos |-> 0, ok |-> TRUE]

(* write_all on the remaining slice: copies min(len, room) bytes, then      *)
(* fails with WriteZero when not everything fitted.  A writer that already *)
(* failed stays as it is (the `?` after each field).                       *)
WriteAll(w, bytes) ==
    IF ~w.ok THEN w
    ELSE LET room == Len(w.buf) - w.pos
             n == Min(Len(bytes), room)
         IN [buf |-> [i \in 1..Len(w.buf) |->
                        IF i > w.pos /\ i <= w.pos + n
                        THEN bytes[i - w.pos] ELSE w.buf[i]],
             pos |-> w.pos + n,
             ok |-> n = Len(bytes)]

(* String: u32 length, then the bytes *)
SerializeString(w, t) == WriteAll(WriteAll(w, U32LE(Len(t))), t)

(* Option<String>: one byte 0 / 1, then the value *)
SerializeOption(w, o) ==
    IF o = None THEN WriteAll(w, <<0>>)
    ELSE SerializeString(WriteAll(w, <<1>>), o[1])

(* bool: one byte *)
SerializeBool(w, b) == WriteAll(w, <<IF b THEN 1 ELSE 0>>)

(* Defective variant: the buffer is cleared before the record is written *)
SerializeCleared(rec, buf) ==
    SerializeBool(
        SerializeOption(
            SerializeString(Writer(Zeroed(Len(buf))), rec.prompt),
            rec.response),
        rec.is_processed)

(* #[derive(BorshSerialize)] for PromptAccount: the fields in order *)
Serialize(rec, buf) ==
    SerializeBool(
        SerializeOption(
            SerializeString(Writer(buf), rec.prompt),
            rec.response),
        rec.is_processed)

(* The bytes of a record written to an unbounded Vec *)
EncodedString(t) == U32LE(Len(t)) \o t

Encoded(rec) ==
    EncodedString(rec.prompt)
    \o (IF rec.response = None THEN <<0>> ELSE <<1>> \o EncodedString(rec.response[1]))
    \o <<IF rec.is_processed THEN 1 ELSE 0>>

EncodedLen(rec) == Len(Encoded(rec))

----------------------------------------------------------------------------
(* Reading: BorshDeserialize *)

ERROR_UNEXPECTED_LENGTH_OF_INPUT == "Unexpected length of input"
ERROR_NOT_ALL_BYTES_READ == "Not all bytes read"
ERROR_INVALID_OPTION == "Invalid Option representation"
ERROR_INVALID_BOOL == "Invalid bool representation"
ERROR_INVALID_UTF8 == "invalid utf-8 sequence"
ERROR_INVALID_VARIANT == "Unexpected variant index"
ERROR_WRITE_ZERO == "failed to write whole buffer"

ReadOk(v, rest) == [ok |-> TRUE, val |-> v, rest |-> rest, err |-> ""]
ReadErr(e) == [ok |-> FALSE, val |-> <<>>, rest |-> <<>>, err |-> e]

Drop(buf, n) == SubSeq(buf, n + 1, Len(buf))

(* The u32 length prefix at the head of buf (Len(buf) >= 4) is at most m.  *)
(* The top byte is tested, not multiplied out: the prefix is 32 bits wide. *)
PrefixAtMost(buf, m) ==
    /\ buf[4] = 0
    /\ buf[1] + 256 * buf[2] + 65536 * buf[3] <= m

PrefixValue(buf) == buf[1] + 256 * buf[2] + 65536 * buf[3]

(* String::from_utf8 on the bytes of the model: bytes below 0x80 are       *)
(* one-byte characters, bytes from 0xF8 up occur in no UTF-8 sequence.     *)
IsUtf8(bytes) == \A i \in 1..Len(bytes) : bytes[i] < 128

DeserializeString(buf) ==
    IF Len(buf) < 4 THEN ReadErr(ERROR_UNEXPECTED_LENGTH_OF_INPUT)
    ELSE LET rest == Drop(buf, 4) IN
         IF ~PrefixAtMost(buf, Len(rest)) THEN ReadErr(ERROR_UNEXPECTED_LENGTH_OF_INPUT)
         ELSE LET n == PrefixValue(buf)
                  bytes == SubSeq(rest, 1, n)
              IN IF ~IsUtf8(bytes) THEN ReadErr(ERROR_INVALID_UTF8)
                 ELSE ReadOk(bytes, Drop(rest, n))

(* Defective variant: every non-zero byte counts as `present` *)
DeserializeOptionLenient(buf) ==
    IF Len(buf) < 1 THEN ReadErr(ERROR_UNEXPECTED_LENGTH_OF_INPUT)
    ELSE IF buf[1] = 0 THEN ReadOk(None, Drop(buf, 1))
    ELSE LET s == DeserializeString(Drop(buf, 1)) IN
         IF s.ok THEN ReadOk(Some(s.val), s.rest) ELSE s

DeserializeOption(buf) ==
    IF Len(buf) < 1 THEN ReadErr(ERROR_UNEXPECTED_LENGTH_OF_INPUT)
    ELSE IF buf[1] = 0 THEN ReadOk(None, Drop(buf, 1))
    ELSE IF buf[1] = 1 THEN
        LET s == DeserializeString(Drop(buf, 1)) IN
        IF s.ok THEN ReadOk(Some(s.val), s.rest) ELSE s
    ELSE ReadErr(ERROR_INVALID_OPTION)

DeserializeBool(buf) ==
    IF Len(buf) < 1 THEN ReadErr(ERROR_UNEXPECTED_LENGTH_OF_INPUT)
    ELSE IF buf[1] = 0 THEN ReadOk(FALSE, Drop(buf, 1))
    ELSE IF buf[1] = 1 THEN ReadOk(TRUE, Drop(buf, 1))
    ELSE ReadErr(ERROR_INVALID_BOOL)

(* #[derive(BorshDeserialize)] for PromptAccount: the fields in order *)
Deserialize(buf) ==
    LET p == DeserializeString(buf) IN
    IF ~p.ok THEN p ELSE
    LET r == DeserializeOption(p.rest) IN
    IF ~r.ok THEN r ELSE
    LET f == DeserializeBool(r.rest) IN
    IF ~f.ok THEN f ELSE
    ReadOk(PromptAccount(p.val, r.val, f.val), f.rest)

(* Defective variant: bytes after the record are accepted *)
TryFromSliceUnchecked(buf) == Deserialize(buf)

(* BorshDeserialize::try_from_slice: everything must be consumed *)
TryFromSlice(buf) ==
    LET d == Deserialize(buf) IN
    IF ~d.ok THEN d
    ELSE IF d.rest # <<>> THEN ReadErr(ERROR_NOT_ALL_BYTES_READ)
    ELSE d

----------------------------------------------------------------------------
(* enum PromptInstruction { SubmitPrompt { prompt }, SubmitResponse { response } } *)

SubmitPromptTag == 0
SubmitResponseTag == 1

InstructionBytes(tag, t) == <<tag>> \o EncodedString(t)

(* Defective variant: bytes after the instruction are accepted *)
InstructionTryFromSliceUnchecked(bytes) ==
    IF Len(bytes) < 1 THEN ReadErr(ERROR_UNEXPECTED_LENGTH_OF_INPUT)
    ELSE IF bytes[1] \notin {SubmitPromptTag, SubmitResponseTag}
         THEN ReadErr(ERROR_INVALID_VARIANT)
    ELSE LET s == DeserializeString(Drop(bytes, 1)) IN
         IF ~s.ok THEN s
         ELSE ReadOk([tag |-> bytes[1], text |-> s.val], <<>>)

(* PromptInstruction::try_from_slice(instruction_data) *)
InstructionTryFromSlice(bytes) ==
    IF Len(bytes) < 1 THEN ReadErr(ERROR_UNEXPECTED_LENGTH_OF_INPUT)
    ELSE IF bytes[1] \notin {SubmitPromptTag, SubmitResponseTag}
         THEN ReadErr(ERROR_INVALID_VARIANT)
    ELSE LET s == DeserializeString(Drop(bytes, 1)) IN
         IF ~s.ok THEN s
         ELSE IF s.rest # <<>> THEN ReadErr(ERROR_NOT_ALL_BYTES_READ)
         ELSE ReadOk([tag |-> bytes[1], text |-> s.val], <<>>)

----------------------------------------------------------------------------
(* What a call returns: the slot's bytes afterwards, the ProgramError (or   *)
(* "Ok"), the last line logged with msg!, and for BorshIoError the message *)
(* of the io::Error it was converted from.                                 *)

Outcome(d, result, log, ioerr) ==
    [data |-> d, result |-> result, log |-> log, ioerr |-> ioerr]

AccountInfo(w, o) == [is_writable |-> w, owner |-> o]

(* Defective variant: the owner is looked at before the writable flag *)
NotWritableAfterOwner(a) == ~a.is_writable /\ a.owner = program_id

(* lib.rs:59 / lib.rs:88 *)
NotWritable(a) == ~a.is_writable

(* Defective variant: the owner is not compared *)
WrongOwnerIgnored(a) == FALSE

(* lib.rs:64 / lib.rs:93 *)
WrongOwner(a) == a.owner # program_id

(* Defective variant: the fresh record is born processed *)
FreshRecordProcessed(prompt) == PromptAccount(prompt, None, TRUE)

(* lib.rs:69-73 *)
FreshRecord(prompt) == PromptAccount(prompt, None, FALSE)

(* Defective variant: is_processed is not tested *)
AlreadyProcessedIgnored(rec) == FALSE

(* lib.rs:100 *)
AlreadyProcessed(rec) == rec.is_processed

(* lib.rs:105-106 *)
WithResponse(rec, response) ==
    [rec EXCEPT !.response = Some(response), !.is_processed = TRUE]

(* Defective variant: a slot that is no longer zeroed is refused *)
process_submit_prompt_once(slot, accounts, prompt) ==
    IF accounts = <<>>
    THEN Outcome(slot, "NotEnoughAccountKeys", "Instruction: SubmitPrompt", "")
    ELSE LET prompt_account == accounts[1] IN
    IF NotWritable(prompt_account)
    THEN Outcome(slot, "InvalidAccountData", "Prompt account must be writable", "")
    ELSE IF WrongOwner(prompt_account)
    THEN Outcome(slot, "IncorrectProgramId",
                 "Prompt account must be owned by the program", "")
    ELSE IF slot # Zeroed(Len(slot))
    THEN Outcome(slot, "AccountAlreadyInitialized", "Instruction: SubmitPrompt", "")
    ELSE LET w == Serialize(FreshRecord(prompt), slot) IN
         IF ~w.ok
         THEN Outcome(w.buf, "BorshIoError", "Instruction: SubmitPrompt", ERROR_WRITE_ZERO)
         ELSE Outcome(w.buf, "Ok", "Prompt submitted successfully", "")

process_submit_prompt(slot, accounts, prompt) ==
    IF accounts = <<>>
    THEN Outcome(slot, "NotEnoughAccountKeys", "Instruction: SubmitPrompt", "")
    ELSE LET prompt_account == accounts[1] IN
    IF NotWritable(prompt_account)
    THEN Outcome(slot, "InvalidAccountData", "Prompt account must be writable", "")
    ELSE IF WrongOwner(prompt_account)
    THEN Outcome(slot, "IncorrectProgramId",
                 "Prompt account must be owned by the program", "")
    ELSE LET w == Serialize(FreshRecord(prompt), slot) IN
         IF ~w.ok
         THEN Outcome(w.buf, "BorshIoError", "Instruction: SubmitPrompt", ERROR_WRITE_ZERO)
         ELSE Outcome(w.buf, "Ok", "Prompt submitted successfully", "")

process_submit_response(slot, accounts, response) ==
    IF accounts = <<>>
    THEN Outcome(slot, "NotEnoughAccountKeys", "Instruction: SubmitResponse", "")
    ELSE LET prompt_account == accounts[1] IN
    IF NotWritable(prompt_account)
    THEN Outcome(slot, "InvalidAccountData", "Prompt account must be writable", "")
    ELSE IF WrongOwner(prompt_account)
    THEN Outcome(slot, "IncorrectProgramId",
                 "Prompt account must be owned by the program", "")
    ELSE LET d == TryFromSlice(slot) IN
    IF ~d.ok
    THEN Outcome(slot, "BorshIoError", "Instruction: SubmitResponse", d.err)
    ELSE IF AlreadyProcessed(d.val)
    THEN Outcome(slot, "InvalidAccountData", "Prompt already processed", "")
    ELSE LET w == Serialize(WithResponse(d.val, response), slot) IN
         IF ~w.ok
         THEN Outcome(w.buf, "BorshIoError", "Instruction: SubmitResponse", ERROR_WRITE_ZERO)
         ELSE Outcome(w.buf, "Ok", "Response submitted successfully", "")

process_instruction(slot, accounts, instruction_data) ==
    LET instruction == InstructionTryFromSlice(instruction_data) IN
    IF ~instruction.ok
    THEN Outcome(slot, "InvalidInstructionData", "NeuroChain program entrypoint", "")
    ELSE IF instruction.val.tag = SubmitPromptTag
    THEN process_submit_prompt(slot, accounts, instruction.val.text)
    ELSE process_submit_response(slot, accounts, instruction.val.text)

----------------------------------------------------------------------------
(* Inputs of a call *)

AccountInputs ==
    {<<>>} \cup {<<AccountInfo(w, o)>> : w \in BOOLEAN, o \in {program_id, other_id}}

MalformedPayloads ==
    { <<>>,                                   \* empty
      <<2, 0, 0, 0, 0>>,                      \* variant index 2
      <<SubmitPromptTag, 0, 0>>,              \* truncated length prefix
      <<SubmitResponseTag, 1, 0, 0, 0>>,      \* prefix 1, no bytes follow
      <<SubmitPromptTag, 0, 0, 0, 0, 97>> }   \* a byte after the string

NoCall ==
    [instruction_data |-> <<>>, accounts |-> <<>>,
     result |-> "NoCall", log |-> "", ioerr |-> ""]

(* What is remembered of a call *)
Returned(out, accounts, instruction_data) ==
    [instruction_data |-> instruction_data, accounts |-> accounts,
     result |-> out.result, log |-> out.log, ioerr |-> out.ioerr]

Count(n, out) == IF out.result = "Ok" THEN n + 1 ELSE n

(* One transaction each: process_instruction runs to its return.  The     *)
(* arms of `match instruction` (lib.rs:26-35) and the early return on a   *)
(* payload that does not decode (lib.rs:23-24).  The two counters of      *)
(* successful calls are capped at MaxOk: no call is taken beyond it.      *)
SubmitPrompt ==
    \E accounts \in AccountInputs, prompt \in Texts :
        \E out \in {process_instruction(data, accounts, InstructionBytes(SubmitPromptTag, prompt))} :
            /\ nSubmitOk < MaxOk /\ nRespondOk < MaxOk
            /\ data' = out.data
            /\ prev' = data
            /\ last' = Returned(out, accounts, InstructionBytes(SubmitPromptTag, prompt))
            /\ nSubmitOk' = Count(nSubmitOk, out)
            /\ nRespondOk' = nRespondOk

SubmitResponse ==
    \E accounts \in AccountInputs, response \in Texts :
        \E out \in {process_instruction(data, accounts, InstructionBytes(SubmitResponseTag, response))} :
            /\ nSubmitOk < MaxOk /\ nRespondOk < MaxOk
            /\ data' = out.data
            /\ prev' = data
            /\ last' = Returned(out, accounts, InstructionBytes(SubmitResponseTag, response))
            /\ nSubmitOk' = nSubmitOk
            /\ nRespondOk' = Count(nRespondOk, out)

InvalidInstruction ==
    \E accounts \in AccountInputs, instruction_data \in MalformedPayloads :
        \E out \in {process_instruction(data, accounts, instruction_data)} :
            /\ nSubmitOk < MaxOk /\ nRespondOk < MaxOk
            /\ data' = out.data
            /\ prev' = data
            /\ last' = Returned(out, accounts, instruction_data)
            /\ nSubmitOk' = nSubmitOk
            /\ nRespondOk' = nRespondOk

Next == SubmitPrompt \/ SubmitResponse \/ InvalidInstruction

(* The slot as the system program allocates it: zeroed *)
Init ==
    /\ \E cap \in Caps : data = Zeroed(cap)
    /\ prev = data
    /\ last = NoCall
    /\ nSubmitOk = 0
    /\ nRespondOk = 0

Spec == Init /\ [][Next]_vars

(* Any slot content: a record written over a filled buffer the way the     *)
(* serializer writes it (complete, cut off at the capacity, or followed by *)
(* the fill), a buffer of fill bytes alone, or a zeroed buffer with the    *)
(* byte of the Option or of the bool set to 2.                             *)
FillBytes == {0, 1, 255}

SeedRecords ==
    [prompt : Texts, response : {None} \cup {Some(t) : t \in Texts}, is_processed : BOOLEAN]

Damage(buf, i, b) == [j \in 1..Len(buf) |-> IF j = i THEN b ELSE buf[j]]

AnySlot ==
    LET written == {Serialize(rec, Fill(cap, f)).buf :
                        rec \in SeedRecords, cap \in Caps, f \in FillBytes}
    IN written
       \cup {Fill(cap, f) : cap \in Caps, f \in FillBytes}
       \cup {Damage(Zeroed(cap), i, 2) : cap \in Caps, i \in {5, 6}}

InitAny ==
    /\ data \in AnySlot
    /\ prev = data
    /\ last = NoCall
    /\ nSubmitOk = 0
    /\ nRespondOk = 0

SpecAny == InitAny /\ [][Next]_vars

----------------------------------------------------------------------------
(* Reading the last call *)

LastInstruction == InstructionTryFromSlice(last.instruction_data)

Called == last.result # "NoCall"

LastIsSubmit ==
    Called /\ LastInstruction.ok /\ LastInstruction.val.tag = SubmitPromptTag

LastIsRespond ==
    Called /\ LastInstruction.ok /\ LastInstruction.val.tag = SubmitResponseTag

LastText == LastInstruction.val.text

LastHasAccount == last.accounts # <<>>

(* The call passed both account checks *)
LastAuthorized ==
    /\ LastHasAccount
    /\ last.accounts[1].is_writable
    /\ last.accounts[1].owner = program_id

----------------------------------------------------------------------------
(* Properties *)

DecodeErrors ==
    {ERROR_UNEXPECTED_LENGTH_OF_INPUT, ERROR_NOT_ALL_BYTES_READ,
     ERROR_INVALID_OPTION, ERROR_INVALID_BOOL, ERROR_INVALID_UTF8}

(* The last call failed in serialize: the record did not fit the slot *)
LastCapacityError ==
    Called /\ last.result = "BorshIoError" /\ last.ioerr = ERROR_WRITE_ZERO

(* The last call failed in try_from_slice on the slot *)
LastDecodeError ==
    Called /\ last.result = "BorshIoError" /\ last.ioerr \in DecodeErrors

(* The slot, read the way SubmitResponse reads it, is exactly rec *)
DecodesTo(buf, rec) == TryFromSlice(buf) = ReadOk(rec, <<>>)

HoldsFinalized(buf) == TryFromSlice(buf).ok /\ TryFromSlice(buf).val.is_processed

(* C1: after a successful Submit(p) on a writable, program-owned slot,     *)
(* Respond(r) succeeds and the slot decodes to {p, present(r), true},      *)
(* whenever that record's encoding fits the capacity.                      *)
C1_RespondAfterSubmit ==
    [][ ( /\ LastIsSubmit /\ last.result = "Ok"
          /\ LastIsRespond' /\ LastAuthorized'
          /\ EncodedLen(PromptAccount(LastText, Some(LastText'), TRUE)) <= Len(data) )
        => ( /\ last'.result = "Ok"
             /\ DecodesTo(data', PromptAccount(LastText, Some(LastText'), TRUE)) )
      ]_vars

(* C2: a Submit or Respond that fails because the new record is longer     *)
(* than the slot leaves every byte of the slot as it was before the call.  *)
C2_CapacityFailureLeavesSlot ==
    ((LastIsSubmit \/ LastIsRespond) /\ LastCapacityError) => data = prev

(* C3: on a writable, program-owned slot of any content, Submit(p) with a  *)
(* fresh record that fits succeeds, and the slot then decodes to           *)
(* {p, absent, false}.                                                     *)
C3_SubmitThenDecode ==
    ( /\ LastIsSubmit /\ LastAuthorized
      /\ EncodedLen(FreshRecord(LastText)) <= Len(prev) )
    => ( /\ last.result = "Ok"
         /\ DecodesTo(data, FreshRecord(LastText)) )

(* C4: once the slot holds a record with is_processed = true, no Submit or *)
(* Respond call, successful or failed, changes the record.                 *)
C4_FinalizedNeverChanges ==
    ((LastIsSubmit \/ LastIsRespond) /\ HoldsFinalized(prev))
    => TryFromSlice(data) = TryFromSlice(prev)

(* C5: Respond on a writable, program-owned slot whose record is finalized *)
(* fails with the already-processed error and leaves the bytes unchanged.  *)
C5_RespondOnFinalizedRejected ==
    (LastIsRespond /\ LastAuthorized /\ HoldsFinalized(prev))
    => ( /\ last.result = "InvalidAccountData"
         /\ last.log = "Prompt already processed"
         /\ data = prev )

C5_Witness ==
    /\ LastIsRespond /\ LastAuthorized /\ HoldsFinalized(prev)
    /\ EncodedLen(WithResponse(TryFromSlice(prev).val, LastText)) <= Len(prev)

(* C6: Submit and Respond on a slot that is not writable fail with the     *)
(* not-writable error, and on a writable slot with another owner with the  *)
(* wrong-owner error; in both cases the bytes are unchanged.               *)
C6_AuthorityEnforced ==
    ((LastIsSubmit \/ LastIsRespond) /\ LastHasAccount)
    => /\ ~last.accounts[1].is_writable
            => ( /\ last.result = "InvalidAccountData"
                 /\ last.log = "Prompt account must be writable"
                 /\ data = prev )
       /\ (last.accounts[1].is_writable /\ last.accounts[1].owner # program_id)
            => ( /\ last.result = "IncorrectProgramId"
                 /\ last.log = "Prompt account must be owned by the program"
                 /\ data = prev )

C6_Witness ==
    /\ LastIsSubmit /\ LastHasAccount
    /\ last.accounts[1].is_writable /\ last.accounts[1].owner # program_id
    /\ EncodedLen(FreshRecord(LastText)) <= Len(prev)
    /\ Serialize(FreshRecord(LastText), prev).buf # prev

(* C7: starting from a zeroed slot, at most one Respond call succeeds, and *)
(* none succeeds before some Submit has succeeded.                         *)
C7_RespondAtMostOnceAfterSubmit ==
    /\ nRespondOk <= 1
    /\ (LastIsRespond /\ last.result = "Ok") => nSubmitOk >= 1

C7_Witness ==
    /\ LastIsRespond /\ LastAuthorized /\ nSubmitOk >= 1
    /\ TryFromSlice(prev).ok

(* C8: at most one Submit call succeeds on a slot.                         *)
C8_SubmitAtMostOnce == nSubmitOk <= 1

(* A Respond call on a slot that is zeroed and was never submitted to *)
RespondOnUninitialized ==
    /\ LastIsRespond /\ LastAuthorized
    /\ nSubmitOk = 0 /\ prev = Zeroed(Len(prev))

(* C9: Respond on an uninitialized (zeroed, never submitted) slot fails    *)
(* with a decode failure, for every capacity and response text.            *)
C9_RespondOnZeroedIsDecodeError ==
    RespondOnUninitialized => LastDecodeError

(* C9 as amended: Respond on an uninitialized slot always fails; with a    *)
(* decode failure unless the capacity is exactly the length of the empty   *)
(* record, where the zero bytes decode and the write of the grown record   *)
(* fails for lack of room.                                                 *)
C9_RespondOnZeroedFails ==
    RespondOnUninitialized
    => IF Len(prev) = EncodedLen(FreshRecord(<<>>))
       THEN LastCapacityError
       ELSE LastDecodeError

C9_Witness ==
    RespondOnUninitialized /\ Len(prev) = EncodedLen(FreshRecord(<<>>))

(* C10: in every state reached from a zeroed slot, a slot that decodes     *)
(* holds a record with is_processed = true exactly when its response is    *)
(* present.                                                                *)
C10_FinalizedIffResponse ==
    TryFromSlice(data).ok
    => (TryFromSlice(data).val.is_processed <=> TryFromSlice(data).val.response # None)

C10_Witness ==
    /\ LastIsSubmit /\ last.result = "Ok"
    /\ TryFromSlice(data).ok
    /\ Len(TryFromSlice(data).val.prompt) > 0

----------------------------------------------------------------------------
(* C11: for every record R and every buffer at least as long as R's        *)
(* encoding, serializing R into the buffer succeeds and decoding the       *)
(* buffer gives R back.  The buffer is the slot as it stands.              *)
C11_RoundTrip ==
    \A rec \in SeedRecords :
        EncodedLen(rec) <= Len(data)
        => ( /\ Serialize(rec, data).ok
             /\ DecodesTo(Serialize(rec, data).buf, rec) )

(* C12: a payload that does not decode (variant index outside {0, 1},      *)
(* truncated, length prefix beyond the remaining bytes, bytes left over)   *)
(* fails with InvalidInstructionData whatever the account and the slot     *)
(* are, and the slot's bytes are unchanged.                                *)
C12_MalformedPayloadRejected ==
    (Called /\ last.instruction_data \in MalformedPayloads)
    => ( /\ last.result = "InvalidInstructionData"
         /\ last.log = "NeuroChain program entrypoint"
         /\ data = prev )

(* a malformed payload that would have been a Submit able to change the    *)
(* slot, had the bytes after the string been ignored                       *)
C12_Witness ==
    /\ Called /\ last.instruction_data = <<SubmitPromptTag, 0, 0, 0, 0, 97>>
    /\ LastAuthorized
    /\ Len(prev) >= EncodedLen(FreshRecord(<<>>))
    /\ Serialize(FreshRecord(<<>>), prev).buf # prev

(* The call got as far as the record: it decoded, tested or wrote it *)
LastReachedRecord ==
    \/ last.result \in {"Ok", "BorshIoError"}
    \/ last.log = "Prompt already processed"

(* C13: the account checks come before any record logic, writable first    *)
(* and owner second: a slot that is not writable gives the not-writable    *)
(* error even with a wrong owner, a writable slot with a wrong owner gives *)
(* the wrong-owner error, whatever the slot holds; the record is reached   *)
(* only by calls that passed both checks.                                  *)
C13_AuthorityBeforeRecord ==
    ((LastIsSubmit \/ LastIsRespond) /\ LastHasAccount)
    => /\ ~last.accounts[1].is_writable
            => ( /\ last.result = "InvalidAccountData"
                 /\ last.log = "Prompt account must be writable" )
       /\ (last.accounts[1].is_writable /\ last.accounts[1].owner # program_id)
            => last.result = "IncorrectProgramId"
       /\ LastReachedRecord => LastAuthorized

(* not writable and wrong owner at once, on a slot holding a finalized record *)
C13_Witness ==
    /\ LastIsRespond /\ LastHasAccount
    /\ ~last.accounts[1].is_writable /\ last.accounts[1].owner # program_id
    /\ HoldsFinalized(prev)

----------------------------------------------------------------------------
----------------------------------------------------------------------------
(* How many leading bytes of buf the decoder has taken when it returns:    *)
(* each read is made after its length test, a failed test takes nothing.   *)
StringExtent(buf) ==
    IF Len(buf) < 4 THEN 0
    ELSE IF ~PrefixAtMost(buf, Len(buf) - 4) THEN 4
    ELSE 4 + PrefixValue(buf)

OptionExtent(buf) ==
    IF Len(buf) < 1 THEN 0
    ELSE IF buf[1] = 1 THEN 1 + StringExtent(Drop(buf, 1))
    ELSE 1

BoolExtent(buf) == IF Len(buf) < 1 THEN 0 ELSE 1

ReadExtent(buf) ==
    LET p == DeserializeString(buf) IN
    IF ~p.ok THEN StringExtent(buf) ELSE
    LET r == DeserializeOption(p.rest) IN
    IF ~r.ok THEN StringExtent(buf) + OptionExtent(p.rest) ELSE
    StringExtent(buf) + OptionExtent(p.rest) + BoolExtent(r.rest)

(* Malformed slot contents, described by the bytes alone *)
StartsWith(buf, head) ==
    Len(buf) >= Len(head) /\ SubSeq(buf, 1, Len(head)) = head

(* a proper prefix of some record's encoding *)
TruncatedRecord(buf) ==
    \E rec \in SeedRecords : Len(buf) < EncodedLen(rec) /\ StartsWith(Encoded(rec), buf)

(* four bytes at the head of buf announce more bytes than follow them *)
LengthBeyondEnd(buf) ==
    /\ Len(buf) >= 4
    /\ \/ buf[4] > 0
       \/ buf[1] + 256 * buf[2] + 65536 * buf[3] > Len(buf) - 4

(* the length prefix of the prompt, or of a present response *)
PrefixBeyondEnd(buf) ==
    \/ LengthBeyondEnd(buf)
    \/ \E p \in Texts :
          /\ StartsWith(buf, EncodedString(p) \o <<1>>)
          /\ LengthBeyondEnd(Drop(buf, Len(p) + 5))

(* the byte after the prompt is neither 0 nor 1 *)
BadOptionByte(buf) ==
    \E p \in Texts :
        /\ StartsWith(buf, EncodedString(p))
        /\ Len(buf) > Len(p) + 4
        /\ buf[Len(p) + 5] \notin {0, 1}

MalformedSlot(buf) ==
    TruncatedRecord(buf) \/ PrefixBeyondEnd(buf) \/ BadOptionByte(buf)

(* C15: decoding a slot whose bytes are truncated, carry a length prefix   *)
(* beyond the remaining bytes, or an Option byte other than 0 and 1 fails  *)
(* with a decode error, and the decoder takes no byte beyond the buffer.   *)
C15_MalformedSlotRejected ==
    (LastIsRespond /\ LastAuthorized /\ MalformedSlot(prev))
    => ( /\ LastDecodeError
         /\ last.ioerr # ERROR_NOT_ALL_BYTES_READ
         /\ data = prev
         /\ ReadExtent(prev) <= Len(prev) )

(* an Option byte of 2 before bytes that would decode as a present,        *)
(* empty response                                                          *)
C15_Witness ==
    /\ LastIsRespond /\ LastAuthorized
    /\ BadOptionByte(prev) /\ ~TruncatedRecord(prev) /\ ~PrefixBeyondEnd(prev)
    /\ Len(prev) >= 10

----------------------------------------------------------------------------
(* The record the last call set out to write *)
LastRecord ==
    IF LastIsSubmit THEN FreshRecord(LastText)
    ELSE WithResponse(TryFromSlice(prev).val, LastText)

(* C16: a successful Submit or Respond writes the first n bytes of the     *)
(* slot, n the encoded length of the new record, and nothing else: the     *)
(* bytes from offset n on keep their values and the length of the slot     *)
(* stays what it was.                                                      *)
C16_OnlyRecordBytesWritten ==
    ((LastIsSubmit \/ LastIsRespond) /\ last.result = "Ok")
    => ( /\ Len(data) = Len(prev)
         /\ EncodedLen(LastRecord) <= Len(data)
         /\ SubSeq(data, 1, EncodedLen(LastRecord)) = Encoded(LastRecord)
         /\ \A i \in 1..Len(data) :
                i > EncodedLen(LastRecord) => data[i] = prev[i] )

(* a stale non-zero byte survives behind the record just written *)
C16_Witness ==
    /\ (LastIsSubmit \/ LastIsRespond) /\ last.result = "Ok"
    /\ \E i \in 1..Len(data) : i > EncodedLen(LastRecord) /\ prev[i] # 0

----------------------------------------------------------------------------
(* C17: SubmitResponse rejects a slot in which bytes follow the record,    *)
(* and starting from a zeroed slot of any capacity no SubmitResponse call  *)
(* ever returns Ok: the slot never holds a finalized record.               *)
C17_RespondNeverSucceeds ==
    /\ nRespondOk = 0
    /\ LastIsRespond => last.result # "Ok"
    /\ ~HoldsFinalized(data)
    /\ ( /\ LastIsRespond /\ LastAuthorized
         /\ Deserialize(prev).ok /\ Deserialize(prev).rest # <<>> )
       => ( /\ last.result = "BorshIoError"
            /\ last.ioerr = ERROR_NOT_ALL_BYTES_READ
            /\ data = prev )

(* a Respond whose response would fit behind the record a Submit wrote,    *)
(* refused for the bytes that follow that record                           *)
C17_Witness ==
    /\ LastIsRespond /\ LastAuthorized /\ nSubmitOk >= 1
    /\ Deserialize(prev).ok /\ Deserialize(prev).rest # <<>>
    /\ Len(Deserialize(prev).val.prompt) > 0
    /\ EncodedLen(WithResponse(Deserialize(prev).val, LastText)) <= Len(prev)

(* The last call was SubmitPrompt and the next one repeats it *)
SubmitRepeated ==
    /\ LastIsSubmit
    /\ last'.instruction_data = last.instruction_data
    /\ last'.accounts = last.accounts

(* C18: SubmitPrompt called twice in a row with the same prompt on the     *)
(* same account returns the same outcome both times and the second call    *)
(* leaves the slot as the first one left it.                               *)
C18_SubmitIdempotent ==
    [][ SubmitRepeated
        => ( /\ last'.result = last.result
             /\ last'.log = last.log
             /\ last'.ioerr = last.ioerr
             /\ data' = data )
      ]_vars

(* the second of two successful Submits, which found its own bytes *)
C18_Witness ==
    /\ LastIsSubmit /\ last.result = "Ok" /\ nSubmitOk = 2
    /\ Len(LastText) > 0
    /\ data = prev

====
